---- MODULE Spec2Model ----
(***************************************************************************)
(* Model of the swap daemon's temporal-safety calculator                   *)
(* (src/swapd/temporal_safety.rs) and of its syncer task registry          *)
(* (src/swapd/syncer_client.rs).                                           *)
(*                                                                         *)
(* The specifications of the module:                                       *)
(*   SpecTS      applies the pure predicates of TemporalSafety to          *)
(*               parameter sets and confirmation counts drawn from         *)
(*               bounded sets;                                             *)
(*   Spec        is the SyncerState registry: one action per method,       *)
(*               driven by task-issuing calls and incoming syncer events;  *)
(*   SpecIds     is the allocation of task ids, started at 0 and close to  *)
(*               the top of the 32-bit counter;                            *)
(*   SpecHeights is the stream of height events of both chains;            *)
(*   SpecAborts  issues tasks, aborts them and acknowledges the aborts;    *)
(*   SpecBroadcast issues broadcasts, receives TransactionBroadcasted      *)
(*               events and reads pending_broadcast_txs;                   *)
(*   SpecScenario applies valid_params and the gates to the parameter      *)
(*               sets of the specification's scenarios;                    *)
(*   SpecSwap    is the swap coordinator driving the registry and the      *)
(*               gates of TemporalSafety;                                  *)
(*   SpecRuntime is the syncer daemon (src/syncerd/runtime.rs): run, the   *)
(*               bus handler of its Runtime and the worker behind its      *)
(*               channel.                                                  *)
(***************************************************************************)
EXTENDS Integers, Sequences, FiniteSets, TLC

VARIABLES
    temporal_safety,    \* TemporalSafety: the six thresholds
    counter,            \* SyncerTasks.counter (u32)
    watched_txs,        \* SyncerTasks.watched_txs: TaskId -> TxLabel
    final_txs,          \* SyncerTasks.final_txs: TxLabel -> bool
    watched_addrs,      \* SyncerTasks.watched_addrs: TaskId -> TxLabel
    retrieving_txs,     \* SyncerTasks.retrieving_txs: TaskId -> (TxLabel, Task)
    broadcasting_txs,   \* SyncerTasks.broadcasting_txs: set of TaskId
    sweeping_addr,      \* SyncerTasks.sweeping_addr: Option<TaskId>
    txids,              \* SyncerTasks.txids: TxLabel -> Txid
    tasks,              \* SyncerTasks.tasks: TaskId -> Task
    bitcoin_height,     \* SyncerState.bitcoin_height (u64)
    monero_height,      \* SyncerState.monero_height (u64)
    confirmations,      \* SyncerState.confirmations: TxLabel -> Option<u32>
    xmr_addr_addendum,  \* SyncerState.xmr_addr_addendum: Option<XmrAddressAddendum>
    panicked,           \* the process died on an arithmetic-overflow panic
    last,               \* observer: the last call, its inputs and what it returned
    issued,             \* observer: the task ids handed out by new_taskid, in order
    wrapped,            \* observer: the u32 counter has wrapped around
    heights_seen,       \* observer: the heights received, per chain, in order
    aborts,             \* Abort tasks handed to the syncer, with the id each was asked for
    sent,               \* observer: TaskId -> transaction of every broadcast issued
    acked,              \* observer: the ids named by TransactionBroadcasted events
    swap,               \* the swap coordinator: its state and the actions it emitted
    runtime,            \* syncerd: the service loop's status and its Runtime
    worker,             \* syncerd: the syncer worker and the tasks it has received
    handled             \* observer: the tasks of the SyncerTask requests handled on Ctl

registry_vars == <<counter, watched_txs, final_txs, watched_addrs, retrieving_txs,
                   broadcasting_txs, sweeping_addr, txids, tasks>>

state_vars == <<counter, watched_txs, final_txs, watched_addrs, retrieving_txs,
                broadcasting_txs, sweeping_addr, txids, tasks, bitcoin_height,
                monero_height, confirmations, xmr_addr_addendum>>

vars == <<temporal_safety, counter, watched_txs, final_txs, watched_addrs,
          retrieving_txs, broadcasting_txs, sweeping_addr, txids, tasks,
          bitcoin_height, monero_height, confirmations, xmr_addr_addendum,
          panicked, last, issued, wrapped, heights_seen, aborts, sent, acked, swap,
          runtime, worker, handled>>

\* the syncer daemon
syncerd_vars == <<runtime, worker, handled>>

\* what only the abort, broadcast, coordinator and syncer-daemon runs write
env_vars == <<aborts, sent, acked, swap, syncerd_vars>>

(***************************************************************************)
(* Bounds of the model.                                                    *)
(***************************************************************************)
\* thresholds of a TemporalSafety value range over 0..MaxThr
MaxThr == 4
\* the accordant-chain finality threshold ranges over 0..MaxXmrThr
MaxXmrThr == 1
\* confirmation counts handed to the temporal predicates range over 0..MaxLockConfs
MaxLockConfs == 6
\* task-issuing calls per run of the registry
MaxTasks == 2
\* the registry may start this many ids short of the end of the u32 range
CounterHeadroom == 1
\* confirmation counts reported by the syncer range over 0..MaxConfs
MaxConfs == 1
\* finality thresholds handed to handle_tx_confs range over 1..MaxFinalityThr
MaxFinalityThr == 1
\* block heights reported to the registry range over 0..MaxHeight
MaxHeight == 1
\* confirmation counts of the scenario runs range over 0..MaxScenarioConfs
MaxScenarioConfs == 41
\* confirmation counts reported during a coordinated swap range over 0..MaxSwapConfs
MaxSwapConfs == 4
\* task-issuing calls per coordinated swap
MaxSwapTasks == 5
\* block heights of the height-event runs range over 0..MaxLoggedHeight
MaxLoggedHeight == 3
\* height events recorded per run by the height observer
MaxHeightEvents == 4
\* SyncerTask requests handled on the Ctl bus per run of the syncer daemon
MaxCtlTasks == 3
\* the tasks a SyncerTask request may carry have ids 1..MaxWireTasks
MaxWireTasks == 2

(***************************************************************************)
(* Machine integers.  TLC's integers are 32-bit signed, so a u32           *)
(* is kept as two 16-bit limbs <<hi, lo>> and a u64 as four, most          *)
(* significant first: every value of the type is representable and the     *)
(* arithmetic keeps its width.                                             *)
(***************************************************************************)
LimbBase == 2 ^ 16

U32(n) == <<n \div LimbBase, n % LimbBase>>
U64(n) == <<0, 0, n \div LimbBase, n % LimbBase>>
U32Max == <<LimbBase - 1, LimbBase - 1>>
U64Max == <<LimbBase - 1, LimbBase - 1, LimbBase - 1, LimbBase - 1>>

\* the value of a u32 below 2^31 as an integer (`as i64`)
AsInt(a) == a[1] * LimbBase + a[2]

\* u32 comparisons
Lt(a, b) == a[1] < b[1] \/ (a[1] = b[1] /\ a[2] < b[2])
Le(a, b) == a[1] < b[1] \/ (a[1] = b[1] /\ a[2] <= b[2])
Gt(a, b) == Lt(b, a)
Ge(a, b) == Le(b, a)

\* u32 a + b: the wrapped sum and whether it overflowed
Add(a, b) ==
    LET lo == a[2] + b[2]
        hi == a[1] + b[1] + (lo \div LimbBase)
    IN  [value |-> <<hi % LimbBase, lo % LimbBase>>, overflow |-> hi >= LimbBase]

\* u32 a - b: the wrapped difference and whether it underflowed
Sub(a, b) ==
    LET lo == a[2] - b[2]
        hi == a[1] - b[1] - (IF lo < 0 THEN 1 ELSE 0)
    IN  [value |-> <<(hi + LimbBase) % LimbBase, (lo + LimbBase) % LimbBase>>,
         overflow |-> hi < 0]

\* u32 arithmetic as a release build computes it (wrapping)
WrappingAdd(a, b) == Add(a, b).value
WrappingSub(a, b) == Sub(a, b).value

\* u64 comparison, addition and subtraction, limb by limb
Lt64(a, b) == \E i \in 1..4 : a[i] < b[i] /\ \A j \in 1..(i - 1) : a[j] = b[j]
Gt64(a, b) == Lt64(b, a)

Add64(a, b) ==
    LET carry[i \in 1..5] ==
            IF i = 5 THEN 0 ELSE (a[i] + b[i] + carry[i + 1]) \div LimbBase
    IN  [value |-> [i \in 1..4 |-> (a[i] + b[i] + carry[i + 1]) % LimbBase],
         overflow |-> carry[1] = 1]

Sub64(a, b) ==
    LET borrow[i \in 1..5] ==
            IF i = 5 THEN 0
            ELSE IF a[i] - b[i] - borrow[i + 1] < 0 THEN 1 ELSE 0
    IN  [value |-> [i \in 1..4 |-> (a[i] - b[i] - borrow[i + 1] + LimbBase) % LimbBase],
         overflow |-> borrow[1] = 1]

(***************************************************************************)
(* Option and HashMap.                                                     *)
(***************************************************************************)
None == << >>
Some(x) == <<x>>
IsSome(o) == o # None
Unwrap(o) == o[1]

Insert(m, k, v) == [x \in (DOMAIN m) \cup {k} |-> IF x = k THEN v ELSE m[x]]
Remove(m, k) == [x \in (DOMAIN m) \ {k} |-> m[x]]
EmptyMap == << >>

Blockchains == {"Bitcoin", "Monero"}

(***************************************************************************)
(* TemporalSafety (src/swapd/temporal_safety.rs).                          *)
(* Every method takes the value `self` as its first parameter.  The        *)
(* boolean operators compute what a release build computes (u32            *)
(* arithmetic wraps); the *_overflows operators say when a debug build     *)
(* panics instead.  `&&` does not evaluate its right side when the left    *)
(* is false.                                                               *)
(***************************************************************************)
\* the check `cancel > race` is left out
valid_params_without_cancel_race(self) ==
    LET btc_finality == self.btc_finality_thr
        cancel == self.cancel_timelock
        punish == self.punish_timelock
        race == self.race_thr
    IN  /\ Lt(btc_finality, cancel)
        /\ Lt(cancel, punish)
        /\ Lt(btc_finality, race)
        /\ Gt(punish, race)

valid_params(self) ==
    LET btc_finality == self.btc_finality_thr
        cancel == self.cancel_timelock
        punish == self.punish_timelock
        race == self.race_thr
    IN  /\ Lt(btc_finality, cancel)
        /\ Lt(cancel, punish)
        /\ Lt(btc_finality, race)
        /\ Gt(punish, race)
        /\ Gt(cancel, race)

\* a transaction is final only at the threshold itself
final_tx_at_threshold(self, confs, blockchain) ==
    LET finality_thr == IF blockchain = "Bitcoin" THEN self.btc_finality_thr
                        ELSE self.xmr_finality_thr
    IN  confs = finality_thr

\* the thresholds of the two chains are taken for each other
final_tx_swapped_chains(self, confs, blockchain) ==
    LET finality_thr == IF blockchain = "Bitcoin" THEN self.xmr_finality_thr
                        ELSE self.btc_finality_thr
    IN  Ge(confs, finality_thr)

final_tx(self, confs, blockchain) ==
    LET finality_thr == IF blockchain = "Bitcoin" THEN self.btc_finality_thr
                        ELSE self.xmr_finality_thr
    IN  Ge(confs, finality_thr)

stop_funding_before_cancel(self, lock_confirmations) ==
    /\ final_tx(self, lock_confirmations, "Bitcoin")
    /\ Gt(lock_confirmations,
          WrappingAdd(WrappingSub(self.cancel_timelock, self.race_thr), U32(1)))

stop_funding_before_cancel_overflows(self, lock_confirmations) ==
    /\ final_tx(self, lock_confirmations, "Bitcoin")
    /\ \/ Sub(self.cancel_timelock, self.race_thr).overflow
       \/ Add(WrappingSub(self.cancel_timelock, self.race_thr), U32(1)).overflow

blocks_until_stop_funding(self, lock_confirmations) ==
    AsInt(self.cancel_timelock) - (AsInt(self.race_thr) + 1 + AsInt(lock_confirmations))

valid_cancel(self, lock_confirmations) ==
    /\ final_tx(self, lock_confirmations, "Bitcoin")
    /\ Ge(lock_confirmations, self.cancel_timelock)

\* the countdown counts the block being mined as confirmed
blocks_until_cancel_counts_next_block(self, lock_confirmations) ==
    AsInt(self.cancel_timelock) - (AsInt(lock_confirmations) + 1)

blocks_until_cancel(self, lock_confirmations) ==
    AsInt(self.cancel_timelock) - AsInt(lock_confirmations)

safe_buy_raced(self, lock_confirmations) ==
    /\ final_tx(self, lock_confirmations, "Bitcoin")
    /\ Le(lock_confirmations, self.cancel_timelock)

\* the last count of the window is refused
safe_buy_strict(self, lock_confirmations) ==
    /\ final_tx(self, lock_confirmations, "Bitcoin")
    /\ Lt(lock_confirmations, WrappingSub(self.cancel_timelock, self.race_thr))

safe_buy(self, lock_confirmations) ==
    /\ final_tx(self, lock_confirmations, "Bitcoin")
    /\ Le(lock_confirmations, WrappingSub(self.cancel_timelock, self.race_thr))

safe_buy_overflows(self, lock_confirmations) ==
    /\ final_tx(self, lock_confirmations, "Bitcoin")
    /\ Sub(self.cancel_timelock, self.race_thr).overflow

safe_refund_short_margin(self, cancel_confirmations) ==
    /\ final_tx(self, cancel_confirmations, "Bitcoin")
    /\ Le(cancel_confirmations,
          WrappingAdd(WrappingSub(self.punish_timelock, self.race_thr), U32(1)))

safe_refund(self, cancel_confirmations) ==
    /\ final_tx(self, cancel_confirmations, "Bitcoin")
    /\ Le(cancel_confirmations, WrappingSub(self.punish_timelock, self.race_thr))

safe_refund_overflows(self, cancel_confirmations) ==
    /\ final_tx(self, cancel_confirmations, "Bitcoin")
    /\ Sub(self.punish_timelock, self.race_thr).overflow

valid_punish(self, cancel_confirmations) ==
    /\ final_tx(self, cancel_confirmations, "Bitcoin")
    /\ Ge(cancel_confirmations, self.punish_timelock)

blocks_until_punish_after_cancel(self, cancel_confirmations) ==
    AsInt(self.punish_timelock) - AsInt(cancel_confirmations)

(***************************************************************************)
(* SpecTS: the temporal predicates applied to bounded inputs.              *)
(***************************************************************************)
Thresholds == {U32(n) : n \in 0..MaxThr}
XmrThresholds == {U32(n) : n \in 0..MaxXmrThr}
LockConfs == {U32(n) : n \in 0..MaxLockConfs}

\* no predicate reads sweep_monero_thr: it is held at one value
TemporalSafetyValues ==
    [cancel_timelock : Thresholds, punish_timelock : Thresholds,
     race_thr : Thresholds, btc_finality_thr : Thresholds,
     xmr_finality_thr : XmrThresholds, sweep_monero_thr : {U32(0)}]

\* the parameters of the spec's scenarios
ScenarioParams ==
    [cancel_timelock |-> U32(20), punish_timelock |-> U32(40), race_thr |-> U32(6),
     btc_finality_thr |-> U32(3), xmr_finality_thr |-> U32(10),
     sweep_monero_thr |-> U32(0)]

\* what a call returns: a debug build panics where the arithmetic overflows,
\* a release build returns the wrapped result
Outcomes(value, overflows) ==
    {[panic |-> FALSE, value |-> value]} \cup
    (IF overflows THEN {[panic |-> TRUE, value |-> FALSE]} ELSE {})

NoCall == [op |-> "none"]

\* no swap is being coordinated
NoSwap == [state |-> "none"]

\* the syncer daemon before run() is called
NoRuntime == [status |-> "none"]
NoWorker == [received |-> << >>]

RegistryInit(start) ==
    /\ counter = start
    /\ watched_txs = EmptyMap
    /\ final_txs = EmptyMap
    /\ watched_addrs = EmptyMap
    /\ retrieving_txs = EmptyMap
    /\ broadcasting_txs = {}
    /\ sweeping_addr = None
    /\ txids = EmptyMap
    /\ tasks = EmptyMap
    /\ bitcoin_height = U64(0)
    /\ monero_height = U64(0)
    /\ confirmations = EmptyMap
    /\ xmr_addr_addendum = None
    /\ panicked = FALSE
    /\ last = NoCall
    /\ issued = << >>
    /\ wrapped = FALSE
    /\ heights_seen = << >>
    /\ aborts = {}
    /\ sent = EmptyMap
    /\ acked = {}
    /\ swap = NoSwap
    /\ runtime = NoRuntime
    /\ worker = NoWorker
    /\ handled = << >>

InitTS ==
    /\ temporal_safety \in TemporalSafetyValues
    /\ RegistryInit(U32(0))

\* one call per run: the predicates are pure, a second call adds nothing
Returned(op, confs, out) ==
    /\ last.op = "none"
    /\ last' = [op |-> op, confs |-> confs, out |-> out]
    /\ UNCHANGED <<temporal_safety, state_vars, panicked, issued, wrapped, heights_seen,
                   env_vars>>

CallValidParams ==
    Returned("valid_params", U32(0),
             [panic |-> FALSE, value |-> valid_params(temporal_safety)])

CallFinalTx ==
    \E c \in LockConfs, b \in Blockchains :
        Returned(IF b = "Bitcoin" THEN "final_tx_bitcoin" ELSE "final_tx_monero", c,
                 [panic |-> FALSE, value |-> final_tx(temporal_safety, c, b)])

CallStopFundingBeforeCancel ==
    \E c \in LockConfs :
        \E out \in Outcomes(stop_funding_before_cancel(temporal_safety, c),
                            stop_funding_before_cancel_overflows(temporal_safety, c)) :
            Returned("stop_funding_before_cancel", c, out)

CallValidCancel ==
    \E c \in LockConfs :
        Returned("valid_cancel", c,
                 [panic |-> FALSE, value |-> valid_cancel(temporal_safety, c)])

CallSafeBuy ==
    \E c \in LockConfs :
        \E out \in Outcomes(safe_buy(temporal_safety, c),
                            safe_buy_overflows(temporal_safety, c)) :
            Returned("safe_buy", c, out)

CallSafeRefund ==
    \E c \in LockConfs :
        \E out \in Outcomes(safe_refund(temporal_safety, c),
                            safe_refund_overflows(temporal_safety, c)) :
            Returned("safe_refund", c, out)

CallValidPunish ==
    \E c \in LockConfs :
        Returned("valid_punish", c,
                 [panic |-> FALSE, value |-> valid_punish(temporal_safety, c)])

CallBlocksUntil ==
    \E c \in LockConfs :
        \E r \in {<<"blocks_until_stop_funding",
                    blocks_until_stop_funding(temporal_safety, c)>>,
                  <<"blocks_until_cancel", blocks_until_cancel(temporal_safety, c)>>,
                  <<"blocks_until_punish_after_cancel",
                    blocks_until_punish_after_cancel(temporal_safety, c)>>} :
            Returned(r[1], c, [panic |-> FALSE, value |-> r[2]])

NextTS ==
    \/ CallValidParams
    \/ CallFinalTx
    \/ CallStopFundingBeforeCancel
    \/ CallValidCancel
    \/ CallSafeBuy
    \/ CallSafeRefund
    \/ CallValidPunish
    \/ CallBlocksUntil

SpecTS == InitTS /\ [][NextTS]_vars

(***************************************************************************)
(* C1: for every TemporalSafety value that passes valid_params and every   *)
(* lock_confs, safe_buy(lock_confs) and valid_cancel(lock_confs) are never *)
(* both true.                                                              *)
(***************************************************************************)
C1_BuyCancelDisjoint ==
    valid_params(temporal_safety) =>
        \A c \in LockConfs :
            ~(safe_buy(temporal_safety, c) /\ valid_cancel(temporal_safety, c))

\* safe_buy has returned true for valid parameters
C1_Witness ==
    /\ valid_params(temporal_safety)
    /\ last.op = "safe_buy"
    /\ last.out = [panic |-> FALSE, value |-> TRUE]
    /\ ~valid_cancel(temporal_safety, last.confs)

(***************************************************************************)
(* C2: for valid parameters, safe_buy(c) implies that valid_cancel(c + k)  *)
(* is false for every 0 <= k < race_thr, and safe_refund(c) implies that   *)
(* valid_punish(c + k) is false for every 0 <= k < race_thr.               *)
(***************************************************************************)
C2_RaceMargin ==
    valid_params(temporal_safety) =>
        \A c \in LockConfs, k \in Thresholds :
            Lt(k, temporal_safety.race_thr) =>
                /\ safe_buy(temporal_safety, c) =>
                     /\ ~Add(c, k).overflow
                     /\ ~valid_cancel(temporal_safety, WrappingAdd(c, k))
                /\ safe_refund(temporal_safety, c) =>
                     /\ ~Add(c, k).overflow
                     /\ ~valid_punish(temporal_safety, WrappingAdd(c, k))

\* safe_refund has returned true at the last count of its window, with a
\* margin of at least two blocks
C2_Witness ==
    /\ valid_params(temporal_safety)
    /\ Gt(temporal_safety.race_thr, U32(1))
    /\ last.op = "safe_refund"
    /\ last.out = [panic |-> FALSE, value |-> TRUE]
    /\ ~safe_refund(temporal_safety, WrappingAdd(last.confs, U32(1)))

(***************************************************************************)
(* SyncerTasks and SyncerState (src/swapd/syncer_client.rs).               *)
(***************************************************************************)
TxLabels == {"Lock", "AccLock"}
Txids == {"txid_a", "txid_b"}
Transactions == {"tx_a", "tx_b"}
Heights == {U64(n) : n \in 0..MaxHeight}
ReportedConfs == {None} \cup {Some(U32(n)) : n \in 0..MaxConfs}
FinalityThrs == {U32(n) : n \in 1..MaxFinalityThr}

\* SyncerState.confirmation_bound: set at construction, never written
confirmation_bound == U32(MaxConfs)

\* Txid::to_vec and hex bytes: the hash as a byte vector
to_vec(txid) == [bytes |-> txid]

\* bitcoin::consensus::serialize and Transaction::consensus_decode
serialize(tx) == [consensus |-> tx]
consensus_decode(bytes) ==
    IF "consensus" \in DOMAIN bytes THEN Some(bytes.consensus) ELSE None

\* the id a task carries: Abort names a target and has no id of its own
TaskIdOf(task) == IF task.kind = "Abort" THEN None ELSE Some(task.id)

new_taskid_stuck == [counter |-> counter, id |-> WrappingAdd(counter, U32(1))]

\* SyncerTasks::new_taskid: the counter after `self.counter += 1` as a
\* release build leaves it, and the TaskId returned
new_taskid ==
    [counter |-> WrappingAdd(counter, U32(1)), id |-> WrappingAdd(counter, U32(1))]

\* `self.counter += 1` overflows: a debug build panics here
new_taskid_overflows == Add(counter, U32(1)).overflow

height(blockchain) ==
    IF blockchain = "Bitcoin" THEN bitcoin_height ELSE monero_height

\* the height is not tested for being known
task_lifetime_always_bounded(blockchain) == Add64(height(blockchain), U64(500)).value

task_lifetime(blockchain) ==
    LET h == height(blockchain)
    IN  IF Gt64(h, U64(0)) THEN Add64(h, U64(500)).value ELSE U64Max

from_height(blockchain, delta) ==
    LET h == height(blockchain)
        d == IF Gt64(h, delta) THEN delta ELSE h
    IN  Sub64(h, d).value

\* observers: what the call returned, and the id new_taskid handed out
Return(op, task) == last' = [op |-> op, task |-> task]

Allocated(id) ==
    /\ issued' = Append(issued, id)
    /\ wrapped' = (wrapped \/ new_taskid_overflows)

\* a coordinated swap watches one transaction per label
IssueBound == IF swap = NoSwap THEN MaxTasks ELSE MaxSwapTasks

CanIssue == ~panicked /\ Len(issued) < IssueBound

estimate_fee_btc ==
    LET id == new_taskid.id
        task == [kind |-> "WatchEstimateFee", id |-> id,
                 lifetime |-> task_lifetime("Bitcoin")]
    IN  /\ CanIssue
        /\ counter' = new_taskid.counter
        /\ tasks' = Insert(tasks, id, task)
        /\ Return("estimate_fee_btc", task)
        /\ Allocated(id)
        /\ UNCHANGED <<watched_txs, final_txs, watched_addrs, retrieving_txs,
                       broadcasting_txs, sweeping_addr, txids, bitcoin_height,
                       monero_height, confirmations, xmr_addr_addendum>>

watch_tx_btc(txid, tx_label) ==
    LET id == new_taskid.id
        task == [kind |-> "WatchTransaction", id |-> id,
                 lifetime |-> task_lifetime("Bitcoin"), hash |-> to_vec(txid),
                 confirmation_bound |-> confirmation_bound]
    IN  /\ CanIssue
        /\ counter' = new_taskid.counter
        /\ watched_txs' = Insert(watched_txs, id, tx_label)
        /\ txids' = Insert(txids, tx_label, txid)
        /\ tasks' = Insert(tasks, id, task)
        /\ Return("watch_tx_btc", task)
        /\ Allocated(id)
        /\ UNCHANGED <<final_txs, watched_addrs, retrieving_txs, broadcasting_txs,
                       sweeping_addr, bitcoin_height, monero_height, confirmations,
                       xmr_addr_addendum>>

\* the accordant-chain watch fills txids as the arbitrating-chain one does
watch_tx_xmr_records_txid(hash, tx_label) ==
    LET id == new_taskid.id
        task == [kind |-> "WatchTransaction", id |-> id,
                 lifetime |-> task_lifetime("Monero"), hash |-> hash,
                 confirmation_bound |-> confirmation_bound]
    IN  /\ CanIssue
        /\ counter' = new_taskid.counter
        /\ watched_txs' = Insert(watched_txs, id, tx_label)
        /\ txids' = Insert(txids, tx_label, hash.bytes)
        /\ tasks' = Insert(tasks, id, task)
        /\ Return("watch_tx_xmr", task)
        /\ Allocated(id)
        /\ UNCHANGED <<final_txs, watched_addrs, retrieving_txs, broadcasting_txs,
                       sweeping_addr, bitcoin_height, monero_height,
                       confirmations, xmr_addr_addendum>>

watch_tx_xmr(hash, tx_label) ==
    LET id == new_taskid.id
        task == [kind |-> "WatchTransaction", id |-> id,
                 lifetime |-> task_lifetime("Monero"), hash |-> hash,
                 confirmation_bound |-> confirmation_bound]
    IN  /\ CanIssue
        /\ counter' = new_taskid.counter
        /\ watched_txs' = Insert(watched_txs, id, tx_label)
        /\ tasks' = Insert(tasks, id, task)
        /\ Return("watch_tx_xmr", task)
        /\ Allocated(id)
        /\ UNCHANGED <<final_txs, watched_addrs, retrieving_txs, broadcasting_txs,
                       sweeping_addr, txids, bitcoin_height, monero_height,
                       confirmations, xmr_addr_addendum>>

retrieve_tx_btc(txid, tx_label) ==
    LET id == new_taskid.id
        task == [kind |-> "GetTx", id |-> id, hash |-> to_vec(txid)]
    IN  /\ CanIssue
        /\ counter' = new_taskid.counter
        /\ retrieving_txs' = Insert(retrieving_txs, id, <<tx_label, task>>)
        /\ tasks' = Insert(tasks, id, task)
        /\ Return("retrieve_tx_btc", task)
        /\ Allocated(id)
        /\ UNCHANGED <<watched_txs, final_txs, watched_addrs, broadcasting_txs,
                       sweeping_addr, txids, bitcoin_height, monero_height,
                       confirmations, xmr_addr_addendum>>

watch_addr_btc(address, tx_label) ==
    LET id == new_taskid.id
        addendum == [from_height |-> from_height("Bitcoin", U64(6)),
                     address |-> address]
        task == [kind |-> "WatchAddress", id |-> id,
                 lifetime |-> task_lifetime("Bitcoin"),
                 addendum |-> [chain |-> "Bitcoin", addendum |-> addendum],
                 include_tx |-> TRUE]
    IN  /\ CanIssue
        /\ counter' = new_taskid.counter
        /\ watched_addrs' = Insert(watched_addrs, id, tx_label)
        /\ tasks' = Insert(tasks, id, task)
        /\ Return("watch_addr_btc", task)
        /\ Allocated(id)
        /\ UNCHANGED <<watched_txs, final_txs, retrieving_txs, broadcasting_txs,
                       sweeping_addr, txids, bitcoin_height, monero_height,
                       confirmations, xmr_addr_addendum>>

watch_addr_xmr(spend, view, tx_label, from_height_arg) ==
    LET fh == IF IsSome(from_height_arg) THEN Unwrap(from_height_arg)
              ELSE from_height("Monero", U64(20))
        addendum == [spend_key |-> spend, view_key |-> view, from_height |-> fh]
        id == new_taskid.id
        task == [kind |-> "WatchAddress", id |-> id,
                 lifetime |-> task_lifetime("Monero"),
                 addendum |-> [chain |-> "Monero", addendum |-> addendum],
                 include_tx |-> FALSE]
    IN  /\ CanIssue
        /\ xmr_addr_addendum' = Some(addendum)
        /\ counter' = new_taskid.counter
        /\ watched_addrs' = Insert(watched_addrs, id, tx_label)
        /\ tasks' = Insert(tasks, id, task)
        /\ Return("watch_addr_xmr", task)
        /\ Allocated(id)
        /\ UNCHANGED <<watched_txs, final_txs, retrieving_txs, broadcasting_txs,
                       sweeping_addr, txids, bitcoin_height, monero_height,
                       confirmations>>

watch_height_unrecorded(blockchain) ==
    LET id == new_taskid.id
        task == [kind |-> "WatchHeight", id |-> id,
                 lifetime |-> task_lifetime(blockchain)]
    IN  /\ CanIssue
        /\ counter' = new_taskid.counter
        /\ last' = [op |-> "watch_height", task |-> task, blockchain |-> blockchain]
        /\ Allocated(id)
        /\ UNCHANGED <<watched_txs, final_txs, watched_addrs, retrieving_txs,
                       broadcasting_txs, sweeping_addr, txids, tasks, bitcoin_height,
                       monero_height, confirmations, xmr_addr_addendum>>

watch_height(blockchain) ==
    LET id == new_taskid.id
        task == [kind |-> "WatchHeight", id |-> id,
                 lifetime |-> task_lifetime(blockchain)]
    IN  /\ CanIssue
        /\ counter' = new_taskid.counter
        /\ tasks' = Insert(tasks, id, task)
        /\ last' = [op |-> "watch_height", task |-> task, blockchain |-> blockchain]
        /\ Allocated(id)
        /\ UNCHANGED <<watched_txs, final_txs, watched_addrs, retrieving_txs,
                       broadcasting_txs, sweeping_addr, txids, bitcoin_height,
                       monero_height, confirmations, xmr_addr_addendum>>

sweep_btc(addendum, retry) ==
    LET id == new_taskid.id
        task == [kind |-> "SweepAddress", id |-> id,
                 lifetime |-> task_lifetime("Bitcoin"),
                 addendum |-> [chain |-> "Bitcoin", addendum |-> addendum],
                 retry |-> retry]
    IN  /\ CanIssue
        /\ counter' = new_taskid.counter
        /\ sweeping_addr' = Some(id)
        /\ tasks' = Insert(tasks, id, task)
        /\ Return("sweep_btc", task)
        /\ Allocated(id)
        /\ UNCHANGED <<watched_txs, final_txs, watched_addrs, retrieving_txs,
                       broadcasting_txs, txids, bitcoin_height, monero_height,
                       confirmations, xmr_addr_addendum>>

sweep_xmr(addendum, retry) ==
    LET id == new_taskid.id
        task == [kind |-> "SweepAddress", id |-> id,
                 lifetime |-> task_lifetime("Monero"),
                 addendum |-> [chain |-> "Monero", addendum |-> addendum],
                 retry |-> retry]
    IN  /\ CanIssue
        /\ counter' = new_taskid.counter
        /\ sweeping_addr' = Some(id)
        /\ tasks' = Insert(tasks, id, task)
        /\ Return("sweep_xmr", task)
        /\ Allocated(id)
        /\ UNCHANGED <<watched_txs, final_txs, watched_addrs, retrieving_txs,
                       broadcasting_txs, txids, bitcoin_height, monero_height,
                       confirmations, xmr_addr_addendum>>

\* the broadcast task is recorded in the task map but not as in flight
broadcast_untracked(tx) ==
    LET id == new_taskid.id
        task == [kind |-> "BroadcastTransaction", id |-> id, tx |-> serialize(tx),
                 broadcast_after_height |-> None]
    IN  /\ CanIssue
        /\ counter' = new_taskid.counter
        /\ tasks' = Insert(tasks, id, task)
        /\ Return("broadcast", task)
        /\ Allocated(id)
        /\ UNCHANGED <<watched_txs, final_txs, watched_addrs, retrieving_txs,
                       broadcasting_txs, sweeping_addr, txids, bitcoin_height,
                       monero_height, confirmations, xmr_addr_addendum>>

broadcast(tx) ==
    LET id == new_taskid.id
        task == [kind |-> "BroadcastTransaction", id |-> id, tx |-> serialize(tx),
                 broadcast_after_height |-> None]
    IN  /\ CanIssue
        /\ counter' = new_taskid.counter
        /\ tasks' = Insert(tasks, id, task)
        /\ broadcasting_txs' = broadcasting_txs \cup {id}
        /\ Return("broadcast", task)
        /\ Allocated(id)
        /\ UNCHANGED <<watched_txs, final_txs, watched_addrs, retrieving_txs,
                       sweeping_addr, txids, bitcoin_height, monero_height,
                       confirmations, xmr_addr_addendum>>

\* the Abort task names the id after the one it was asked for
abort_task_wrong_target(id) ==
    /\ ~panicked
    /\ Return("abort_task", [kind |-> "Abort", task_target |-> WrappingAdd(id, U32(1)),
                             respond |-> FALSE])
    /\ UNCHANGED <<state_vars, issued, wrapped>>

abort_task(id) ==
    /\ ~panicked
    /\ Return("abort_task", [kind |-> "Abort", task_target |-> id, respond |-> FALSE])
    /\ UNCHANGED <<state_vars, issued, wrapped>>

transaction_broadcasted(event) ==
    /\ ~panicked
    /\ broadcasting_txs' = broadcasting_txs \ {event.id}
    /\ tasks' = Remove(tasks, event.id)
    /\ last' = [op |-> "transaction_broadcasted", id |-> event.id]
    /\ UNCHANGED <<counter, watched_txs, final_txs, watched_addrs, retrieving_txs,
                   sweeping_addr, txids, bitcoin_height, monero_height,
                   confirmations, xmr_addr_addendum, issued, wrapped>>

handle_height_change_unguarded(new_height, blockchain) ==
    /\ ~panicked
    /\ bitcoin_height' = IF blockchain = "Bitcoin" THEN new_height ELSE bitcoin_height
    /\ monero_height' = IF blockchain = "Monero" THEN new_height ELSE monero_height
    /\ last' = [op |-> "handle_height_change", new_height |-> new_height,
                blockchain |-> blockchain]
    /\ UNCHANGED <<registry_vars, confirmations, xmr_addr_addendum, issued, wrapped>>

\* an accepted height is written to both chains
handle_height_change_syncs_chains(new_height, blockchain) ==
    /\ ~panicked
    /\ IF Gt64(new_height, height(blockchain))
       THEN /\ bitcoin_height' = new_height
            /\ monero_height' = new_height
       ELSE UNCHANGED <<bitcoin_height, monero_height>>
    /\ last' = [op |-> "handle_height_change", new_height |-> new_height,
                blockchain |-> blockchain]
    /\ UNCHANGED <<registry_vars, confirmations, xmr_addr_addendum, issued, wrapped>>

handle_height_change(new_height, blockchain) ==
    /\ ~panicked
    /\ IF Gt64(new_height, height(blockchain))
       THEN /\ bitcoin_height' =
                 IF blockchain = "Bitcoin" THEN new_height ELSE bitcoin_height
            /\ monero_height' =
                 IF blockchain = "Monero" THEN new_height ELSE monero_height
       ELSE UNCHANGED <<bitcoin_height, monero_height>>
    /\ last' = [op |-> "handle_height_change", new_height |-> new_height,
                blockchain |-> blockchain]
    /\ UNCHANGED <<registry_vars, confirmations, xmr_addr_addendum, issued, wrapped>>

\* the parts of handle_tx_confs that every variant below shares
TxConfsFrame(id, confs, finality_thr) ==
    /\ ~panicked
    /\ last' = [op |-> "handle_tx_confs", id |-> id, confirmations |-> confs,
                finality_thr |-> finality_thr]
    /\ UNCHANGED <<counter, watched_txs, watched_addrs, retrieving_txs,
                   broadcasting_txs, sweeping_addr, txids, bitcoin_height,
                   monero_height, xmr_addr_addendum, issued, wrapped>>

\* a report below the threshold marks a final label non-final
handle_tx_confs_unlatching(id, confs, finality_thr) ==
    /\ TxConfsFrame(id, confs, finality_thr)
    /\ tasks' = tasks
    /\ IF id \in DOMAIN watched_txs
       THEN LET txlabel == watched_txs[id]
                final == IsSome(confs) /\ Ge(Unwrap(confs), finality_thr)
            IN  /\ final_txs' =
                     IF txlabel \notin DOMAIN final_txs /\ ~final THEN final_txs
                     ELSE Insert(final_txs, txlabel, final)
                /\ confirmations' = Insert(confirmations, txlabel, confs)
       ELSE UNCHANGED <<final_txs, confirmations>>

\* any known count latches, whatever the threshold
handle_tx_confs_no_threshold(id, confs, finality_thr) ==
    /\ TxConfsFrame(id, confs, finality_thr)
    /\ tasks' = tasks
    /\ IF id \in DOMAIN watched_txs
       THEN LET txlabel == watched_txs[id]
            IN  /\ final_txs' =
                     IF txlabel \notin DOMAIN final_txs /\ IsSome(confs)
                     THEN Insert(final_txs, txlabel, TRUE)
                     ELSE final_txs
                /\ confirmations' = Insert(confirmations, txlabel, confs)
       ELSE UNCHANGED <<final_txs, confirmations>>

\* an event for an unknown id drops the stale task
handle_tx_confs_drops_task(id, confs, finality_thr) ==
    /\ TxConfsFrame(id, confs, finality_thr)
    /\ IF id \in DOMAIN watched_txs
       THEN LET txlabel == watched_txs[id]
            IN  /\ final_txs' =
                     IF /\ txlabel \notin DOMAIN final_txs
                        /\ IsSome(confs)
                        /\ Ge(Unwrap(confs), finality_thr)
                     THEN Insert(final_txs, txlabel, TRUE)
                     ELSE final_txs
                /\ confirmations' = Insert(confirmations, txlabel, confs)
                /\ tasks' = tasks
       ELSE /\ tasks' = Remove(tasks, id)
            /\ UNCHANGED <<final_txs, confirmations>>

\* a None report keeps the last known count
handle_tx_confs_keeps_last_known(id, confs, finality_thr) ==
    /\ TxConfsFrame(id, confs, finality_thr)
    /\ tasks' = tasks
    /\ IF id \in DOMAIN watched_txs
       THEN LET txlabel == watched_txs[id]
            IN  /\ final_txs' =
                     IF /\ txlabel \notin DOMAIN final_txs
                        /\ IsSome(confs)
                        /\ Ge(Unwrap(confs), finality_thr)
                     THEN Insert(final_txs, txlabel, TRUE)
                     ELSE final_txs
                /\ confirmations' =
                     IF confs = None /\ txlabel \in DOMAIN confirmations
                     THEN confirmations
                     ELSE Insert(confirmations, txlabel, confs)
       ELSE UNCHANGED <<final_txs, confirmations>>

\* a report for a label that is already final is not recorded
handle_tx_confs_skips_latched(id, confs, finality_thr) ==
    /\ TxConfsFrame(id, confs, finality_thr)
    /\ tasks' = tasks
    /\ IF id \in DOMAIN watched_txs
       THEN LET txlabel == watched_txs[id]
            IN  IF txlabel \in DOMAIN final_txs
                THEN UNCHANGED <<final_txs, confirmations>>
                ELSE /\ final_txs' =
                          IF IsSome(confs) /\ Ge(Unwrap(confs), finality_thr)
                          THEN Insert(final_txs, txlabel, TRUE)
                          ELSE final_txs
                     /\ confirmations' = Insert(confirmations, txlabel, confs)
       ELSE UNCHANGED <<final_txs, confirmations>>

\* a report below the threshold is recorded as final_txs[label] = false
handle_tx_confs_records_non_final(id, confs, finality_thr) ==
    /\ TxConfsFrame(id, confs, finality_thr)
    /\ tasks' = tasks
    /\ IF id \in DOMAIN watched_txs
       THEN LET txlabel == watched_txs[id]
            IN  /\ final_txs' =
                     IF txlabel \in DOMAIN final_txs /\ final_txs[txlabel]
                     THEN final_txs
                     ELSE Insert(final_txs, txlabel,
                                 IsSome(confs) /\ Ge(Unwrap(confs), finality_thr))
                /\ confirmations' = Insert(confirmations, txlabel, confs)
       ELSE UNCHANGED <<final_txs, confirmations>>

handle_tx_confs(id, confs, finality_thr) ==
    /\ ~panicked
    /\ IF id \in DOMAIN watched_txs
       THEN LET txlabel == watched_txs[id]
            IN  /\ final_txs' =
                     IF /\ txlabel \notin DOMAIN final_txs
                        /\ IsSome(confs)
                        /\ Ge(Unwrap(confs), finality_thr)
                     THEN Insert(final_txs, txlabel, TRUE)
                     ELSE final_txs
                /\ confirmations' = Insert(confirmations, txlabel, confs)
       ELSE UNCHANGED <<final_txs, confirmations>>
    /\ last' = [op |-> "handle_tx_confs", id |-> id, confirmations |-> confs,
                finality_thr |-> finality_thr]
    /\ UNCHANGED <<counter, watched_txs, watched_addrs, retrieving_txs,
                   broadcasting_txs, sweeping_addr, txids, tasks, bitcoin_height,
                   monero_height, xmr_addr_addendum, issued, wrapped>>

(***************************************************************************)
(* Spec: the registry under task-issuing calls and incoming events.        *)
(* abort_task writes no field of the registry; it runs in SpecIds.         *)
(***************************************************************************)
\* the ids an event may name: every id the registry holds, and one it does not
KnownIds ==
    (DOMAIN tasks) \cup (DOMAIN watched_txs) \cup (DOMAIN watched_addrs) \cup
    (DOMAIN retrieving_txs) \cup broadcasting_txs \cup
    (IF IsSome(sweeping_addr) THEN {Unwrap(sweeping_addr)} ELSE {})

EventIds == KnownIds \cup {WrappingAdd(counter, U32(1))}

Init ==
    /\ temporal_safety = ScenarioParams
    /\ RegistryInit(U32(0))

Frame == UNCHANGED <<temporal_safety, panicked, heights_seen, env_vars>>

Next ==
    \/ estimate_fee_btc /\ Frame
    \/ \E txid \in Txids, l \in TxLabels : watch_tx_btc(txid, l) /\ Frame
    \/ watch_tx_xmr(to_vec("txid_x"), "AccLock") /\ Frame
    \/ retrieve_tx_btc("txid_a", "Lock") /\ Frame
    \/ watch_addr_btc("address", "Lock") /\ Frame
    \/ \E fh \in {None, Some(U64(1))} :
           watch_addr_xmr("spend", "view", "AccLock", fh) /\ Frame
    \/ \E b \in Blockchains : watch_height(b) /\ Frame
    \/ sweep_btc("sweep_btc_addendum", FALSE) /\ Frame
    \/ sweep_xmr("sweep_xmr_addendum", TRUE) /\ Frame
    \/ \E tx \in Transactions : broadcast(tx) /\ Frame
    \/ \E id \in EventIds : transaction_broadcasted([id |-> id]) /\ Frame
    \/ \E h \in Heights, b \in Blockchains : handle_height_change(h, b) /\ Frame
    \/ \E id \in EventIds, c \in ReportedConfs, thr \in FinalityThrs :
           handle_tx_confs(id, c, thr) /\ Frame

Spec == Init /\ [][Next]_vars

(***************************************************************************)
(* SpecIds: the allocation of task ids.  The registry starts with no id    *)
(* handed out, or with its counter near the end of the u32 range (every    *)
(* earlier task reported by a TransactionBroadcasted event and removed);   *)
(* the task-issuing calls, abort_task and transaction_broadcasted run.     *)
(***************************************************************************)
StartCounters == {U32(0), WrappingSub(U32Max, U32(CounterHeadroom))}

InitIds ==
    /\ temporal_safety = ScenarioParams
    /\ \E start \in StartCounters : RegistryInit(start)

\* a task-issuing call in a debug build when the counter is at u32::MAX:
\* `self.counter += 1` panics and the process dies
new_taskid_panics ==
    /\ CanIssue
    /\ new_taskid_overflows
    /\ panicked' = TRUE
    /\ last' = [op |-> "panic"]
    /\ UNCHANGED <<temporal_safety, state_vars, issued, wrapped, heights_seen, env_vars>>

NextIds ==
    \/ estimate_fee_btc /\ Frame
    \/ \E l \in TxLabels : watch_tx_btc("txid_a", l) /\ Frame
    \/ \E l \in TxLabels : watch_tx_xmr(to_vec("txid_x"), l) /\ Frame
    \/ \E l \in TxLabels : retrieve_tx_btc("txid_a", l) /\ Frame
    \/ \E l \in TxLabels : watch_addr_btc("address", l) /\ Frame
    \/ \E l \in TxLabels : watch_addr_xmr("spend", "view", l, None) /\ Frame
    \/ \E b \in Blockchains : watch_height(b) /\ Frame
    \/ sweep_btc("sweep_btc_addendum", FALSE) /\ Frame
    \/ sweep_xmr("sweep_xmr_addendum", TRUE) /\ Frame
    \/ \E tx \in Transactions : broadcast(tx) /\ Frame
    \/ new_taskid_panics
    \/ \E id \in EventIds : abort_task(id) /\ Frame
    \/ \E id \in EventIds : transaction_broadcasted([id |-> id]) /\ Frame

SpecIds == InitIds /\ [][NextIds]_vars

(***************************************************************************)
(* SpecHeights: height events alone, with the heights received recorded.   *)
(***************************************************************************)
LoggedHeights == {U64(n) : n \in 0..MaxLoggedHeight}

InitHeights ==
    /\ temporal_safety = ScenarioParams
    /\ RegistryInit(U32(0))

ReceiveHeight ==
    \E h \in LoggedHeights, b \in Blockchains :
        /\ Len(heights_seen) < MaxHeightEvents
        /\ handle_height_change(h, b)
        /\ heights_seen' = Append(heights_seen, <<b, h>>)
        /\ UNCHANGED <<temporal_safety, panicked, env_vars>>

NextHeights == ReceiveHeight

SpecHeights == InitHeights /\ [][NextHeights]_vars

\* the heights received for a chain, and the largest of a set of heights
Received(blockchain) ==
    {heights_seen[i][2] : i \in {j \in 1..Len(heights_seen) :
                                    heights_seen[j][1] = blockchain}}

Max64(S) == CHOOSE m \in S : \A x \in S : ~Lt64(m, x)

(***************************************************************************)
(* C3 (as amended): the task ids issued by the task-issuing operations are *)
(* strictly increasing, so none is issued twice, for as long as the 32-bit *)
(* counter has not overflowed.                                             *)
(***************************************************************************)
StrictlyIncreasing(ids) ==
    \A i, j \in 1..Len(ids) : i < j => Lt(ids[i], ids[j])

C3_IncreasingUntilWrap == ~wrapped => StrictlyIncreasing(issued)

\* C3 as stated: the ids are strictly increasing for sequences of every length
C3_Original == StrictlyIncreasing(issued)

\* ids were issued up to the bound without the counter overflowing
C3_Witness == ~wrapped /\ Len(issued) = MaxTasks /\ Lt(issued[1], issued[2])

(***************************************************************************)
(* C4: every task id that appears in watched_txs, watched_addrs,           *)
(* retrieving_txs, broadcasting_txs or sweeping_addr is a key of the task  *)
(* map, after any interleaving of calls and events.                        *)
(***************************************************************************)
IndexedIds ==
    (DOMAIN watched_txs) \cup (DOMAIN watched_addrs) \cup (DOMAIN retrieving_txs)
    \cup broadcasting_txs \cup
    (IF IsSome(sweeping_addr) THEN {Unwrap(sweeping_addr)} ELSE {})

C4_IndexedIdsAreTasks == IndexedIds \subseteq DOMAIN tasks

(***************************************************************************)
(* C5: once final_txs[label] is true it stays true after every later       *)
(* operation and event.                                                    *)
(***************************************************************************)
IsFinal(label) == label \in DOMAIN final_txs /\ final_txs[label]

C5_FinalityLatched ==
    [][\A l \in TxLabels : IsFinal(l) => IsFinal(l)']_vars

\* a label is still latched after a report below every threshold, while a
\* second watch for the same label has been issued
C5_Witness ==
    \E l \in TxLabels :
        /\ IsFinal(l)
        /\ confirmations[l] \in {None, Some(U32(0))}
        /\ Cardinality({id \in DOMAIN watched_txs : watched_txs[id] = l}) = 2

(***************************************************************************)
(* C6 (as amended): final_txs[label] becomes true only in a                *)
(* handle_tx_confs call whose report is a known count >= that call's       *)
(* finality_thr, and right after that call confirmations[label] is that    *)
(* count.                                                                  *)
(***************************************************************************)
C6_LatchedByFinalReport ==
    [][\A l \in TxLabels :
          (~IsFinal(l) /\ IsFinal(l)') =>
              /\ last'.op = "handle_tx_confs"
              /\ IsSome(last'.confirmations)
              /\ Ge(Unwrap(last'.confirmations), last'.finality_thr)
              /\ confirmations'[l] = last'.confirmations]_vars

\* C6 as stated: a latched label's confirmations are a known count that is
\* at least a finality threshold
C6_Original ==
    \A l \in TxLabels :
        IsFinal(l) =>
            /\ l \in DOMAIN confirmations
            /\ IsSome(confirmations[l])
            /\ \E thr \in FinalityThrs : Ge(Unwrap(confirmations[l]), thr)

\* a report at the threshold has just latched its label
C6_Witness ==
    /\ last.op = "handle_tx_confs"
    /\ last.id \in DOMAIN watched_txs
    /\ IsFinal(watched_txs[last.id])
    /\ confirmations[watched_txs[last.id]] = Some(last.finality_thr)

(***************************************************************************)
(* C7: after any sequence of handle_height_change events, the recorded     *)
(* height of a chain is the maximum of the heights received for it.        *)
(***************************************************************************)
C7_HeightIsMaxReceived ==
    \A b \in Blockchains :
        height(b) = IF Received(b) = {} THEN U64(0) ELSE Max64(Received(b))

\* bitcoin heights h+1, h+2, h, h+3 were received (as 100, 101, 99, 102)
C7_Witness ==
    /\ heights_seen = <<<<"Bitcoin", U64(1)>>, <<"Bitcoin", U64(2)>>,
                        <<"Bitcoin", U64(0)>>, <<"Bitcoin", U64(3)>>>>
    /\ bitcoin_height = U64(3)

(***************************************************************************)
(* C8: handle_tx_confs with a task id that is not a key of watched_txs     *)
(* changes neither confirmations, final_txs, the task map nor any index.   *)
(***************************************************************************)
C8_UnknownIdDropped ==
    [][(last'.op = "handle_tx_confs" /\ last'.id \notin DOMAIN watched_txs) =>
          UNCHANGED <<confirmations, final_txs, registry_vars>>]_vars

\* a report for an id held by the task map but not by watched_txs was handled
C8_Witness ==
    /\ last.op = "handle_tx_confs"
    /\ last.id \notin DOMAIN watched_txs
    /\ last.id \in DOMAIN tasks
    /\ watched_txs # EmptyMap

(***************************************************************************)
(* C9 (as amended): a None report for a watched label sets                 *)
(* confirmations[label] to None; the last known count is overwritten.      *)
(***************************************************************************)
C9_NoneOverwrites ==
    (/\ last.op = "handle_tx_confs"
     /\ last.id \in DOMAIN watched_txs
     /\ last.confirmations = None) =>
        /\ watched_txs[last.id] \in DOMAIN confirmations
        /\ confirmations[watched_txs[last.id]] = None

\* C9 as stated: a None report for a label with a known count keeps the count
C9_Original ==
    [][(/\ last'.op = "handle_tx_confs"
        /\ last'.id \in DOMAIN watched_txs
        /\ last'.confirmations = None
        /\ watched_txs[last'.id] \in DOMAIN confirmations
        /\ IsSome(confirmations[watched_txs[last'.id]])) =>
          confirmations'[watched_txs[last'.id]] = confirmations[watched_txs[last'.id]]]_vars

\* a None report arrived for a label that an earlier report had latched
C9_Witness ==
    /\ last.op = "handle_tx_confs"
    /\ last.id \in DOMAIN watched_txs
    /\ last.confirmations = None
    /\ IsFinal(watched_txs[last.id])

(***************************************************************************)
(* C10 (as amended): every task handed out other than Abort carries the    *)
(* task id new_taskid allocated in that call, fresh while the counter has  *)
(* not overflowed, and is recorded under it in the task map; an Abort task *)
(* carries only its target's id.                                           *)
(***************************************************************************)
IssuingOps ==
    {"estimate_fee_btc", "watch_tx_btc", "watch_tx_xmr", "retrieve_tx_btc",
     "watch_addr_btc", "watch_addr_xmr", "watch_height", "sweep_btc", "sweep_xmr",
     "broadcast"}

Fresh(id) == \A i \in 1..(Len(issued) - 1) : issued[i] # id

C10_IssuedTasksRecorded ==
    /\ last.op \in IssuingOps =>
         /\ IsSome(TaskIdOf(last.task))
         /\ last.task.id = counter
         /\ issued # << >> /\ issued[Len(issued)] = last.task.id
         /\ last.task.id \in DOMAIN tasks
         /\ tasks[last.task.id] = last.task
         /\ ~wrapped => Fresh(last.task.id)
    /\ last.op = "abort_task" => TaskIdOf(last.task) = None

\* C10 as stated: every task handed out, Abort included, carries a fresh id
\* that is a key of the task map
C10_Original ==
    last.op \in IssuingOps \cup {"abort_task"} =>
        /\ IsSome(TaskIdOf(last.task))
        /\ Unwrap(TaskIdOf(last.task)) \in DOMAIN tasks
        /\ Fresh(Unwrap(TaskIdOf(last.task)))

\* a second task was handed out, after the first one's id
C10_Witness ==
    /\ last.op \in IssuingOps
    /\ Len(issued) = 2
    /\ last.task.id = issued[2]
    /\ issued[1] # issued[2]

(***************************************************************************)
(* SpecAborts: tasks are issued, aborted and the aborts acknowledged.      *)
(* abort_task is the registry's; the handler of the TaskAborted event is   *)
(* the coordinator's and follows the specification of `abort(id)`: "the ID *)
(* is removed from its correlation index when the abort is acknowledged".  *)
(***************************************************************************)
task_aborted(event) ==
    /\ ~panicked
    /\ watched_txs' = Remove(watched_txs, event.id)
    /\ watched_addrs' = Remove(watched_addrs, event.id)
    /\ retrieving_txs' = Remove(retrieving_txs, event.id)
    /\ broadcasting_txs' = broadcasting_txs \ {event.id}
    /\ sweeping_addr' = IF sweeping_addr = Some(event.id) THEN None ELSE sweeping_addr
    /\ last' = [op |-> "task_aborted", id |-> event.id]
    /\ UNCHANGED <<counter, final_txs, txids, tasks, bitcoin_height, monero_height,
                   confirmations, xmr_addr_addendum, issued, wrapped>>

AbortFrame ==
    UNCHANGED <<temporal_safety, panicked, heights_seen, sent, acked, swap, syncerd_vars>>

\* the coordinator aborts a task the registry holds and hands the Abort
\* task to the syncer
SendAbort ==
    \E id \in KnownIds :
        /\ \A a \in aborts : a.requested # id
        /\ abort_task(id)
        /\ aborts' = aborts \cup {[requested |-> id, task |-> last'.task,
                                   acked |-> FALSE]}
        /\ AbortFrame

\* the syncer acknowledges an Abort with TaskAborted for the Abort's target
ReceiveTaskAborted ==
    \E a \in aborts :
        /\ ~a.acked
        /\ task_aborted([id |-> a.task.task_target])
        /\ aborts' = (aborts \ {a}) \cup {[a EXCEPT !.acked = TRUE]}
        /\ AbortFrame

InitAborts ==
    /\ temporal_safety = ScenarioParams
    /\ RegistryInit(U32(0))

NextAborts ==
    \/ \E l \in TxLabels : watch_tx_btc("txid_a", l) /\ Frame
    \/ watch_addr_btc("address", "Lock") /\ Frame
    \/ retrieve_tx_btc("txid_a", "Lock") /\ Frame
    \/ sweep_btc("sweep_btc_addendum", FALSE) /\ Frame
    \/ broadcast("tx_a") /\ Frame
    \/ watch_height("Bitcoin") /\ Frame
    \/ SendAbort
    \/ ReceiveTaskAborted

SpecAborts == InitAborts /\ [][NextAborts]_vars

Orders(S) ==
    {o \in [1..Cardinality(S) -> S] : \A i, j \in DOMAIN o : i # j => o[i] # o[j]}

\* SyncerState::pending_broadcast_txs, iterating broadcasting_txs in `order`:
\* filter_map skips an id without a task, a task of another kind and a
\* payload that does not decode
pending_broadcast_txs(order) ==
    LET found(id) ==
            IF id \notin DOMAIN tasks THEN None
            ELSE IF tasks[id].kind = "BroadcastTransaction"
                 THEN consensus_decode(tasks[id].tx)
                 ELSE None
        collect[i \in 0..Len(order)] ==
            IF i = 0 THEN << >>
            ELSE IF IsSome(found(order[i]))
                 THEN Append(collect[i - 1], Unwrap(found(order[i])))
                 ELSE collect[i - 1]
    IN  collect[Len(order)]

BroadcastFrame ==
    UNCHANGED <<temporal_safety, panicked, heights_seen, aborts, swap, syncerd_vars>>

IssueBroadcast ==
    \E tx \in Transactions :
        /\ broadcast(tx)
        /\ sent' = Insert(sent, new_taskid.id, tx)
        /\ acked' = acked \ {new_taskid.id}
        /\ BroadcastFrame

\* a TransactionBroadcasted event acknowledges the broadcast issued under
\* its id, if there is one
ReceiveTransactionBroadcasted ==
    \E id \in EventIds :
        /\ transaction_broadcasted([id |-> id])
        /\ acked' = acked \cup ({id} \cap DOMAIN sent)
        /\ UNCHANGED sent
        /\ BroadcastFrame

CallPendingBroadcastTxs ==
    \E order \in Orders(broadcasting_txs) :
        /\ ~panicked
        /\ last' = [op |-> "pending_broadcast_txs", txs |-> pending_broadcast_txs(order)]
        /\ UNCHANGED <<state_vars, issued, wrapped, sent, acked>>
        /\ BroadcastFrame

InitBroadcast ==
    /\ temporal_safety = ScenarioParams
    /\ RegistryInit(U32(0))

NextBroadcast ==
    \/ IssueBroadcast
    \/ ReceiveTransactionBroadcasted
    \/ CallPendingBroadcastTxs
    \/ \E l \in TxLabels : watch_tx_btc("txid_a", l) /\ Frame
    \/ sweep_btc("sweep_btc_addendum", FALSE) /\ Frame

SpecBroadcast == InitBroadcast /\ [][NextBroadcast]_vars

(***************************************************************************)
(* C12: pending_broadcast_txs returns exactly the transactions whose       *)
(* broadcast task was issued and has not been acknowledged by a            *)
(* TransactionBroadcasted event for its id, each as often as it is         *)
(* pending: none acknowledged, none missing.                               *)
(***************************************************************************)
Occurrences(seq, x) == Cardinality({i \in DOMAIN seq : seq[i] = x})

Unacknowledged == (DOMAIN sent) \ acked

C12_PendingAreUnacknowledged ==
    last.op = "pending_broadcast_txs" =>
        \A tx \in Transactions :
            Occurrences(last.txs, tx) =
                Cardinality({id \in Unacknowledged : sent[id] = tx})

\* one broadcast was acknowledged and another was not, and the call returned
\* the one still pending
C12_Witness ==
    /\ last.op = "pending_broadcast_txs"
    /\ Len(last.txs) = 1
    /\ Cardinality(DOMAIN sent) = 2
    /\ Cardinality(acked) = 1

(***************************************************************************)
(* SpecScenario: valid_params on every parameter set of the grid and on    *)
(* the parameter sets of the specification's scenarios, and the gates of   *)
(* the scenarios over a longer range of confirmation counts.               *)
(***************************************************************************)
\* the "invalid params" scenario: cancel=5, punish=10, race=6, btc_final=3
RejectedParams ==
    [cancel_timelock |-> U32(5), punish_timelock |-> U32(10), race_thr |-> U32(6),
     btc_finality_thr |-> U32(3), xmr_finality_thr |-> U32(10),
     sweep_monero_thr |-> U32(0)]

Scenarios == {ScenarioParams, RejectedParams}

ScenarioConfs == {U32(n) : n \in 0..MaxScenarioConfs} \cup {U32Max}

InitScenario ==
    /\ temporal_safety \in TemporalSafetyValues \cup Scenarios
    /\ RegistryInit(U32(0))

ScenarioSafeBuy ==
    \E c \in ScenarioConfs :
        \E out \in Outcomes(safe_buy(temporal_safety, c),
                            safe_buy_overflows(temporal_safety, c)) :
            temporal_safety \in Scenarios /\ Returned("safe_buy", c, out)

ScenarioValidCancel ==
    \E c \in ScenarioConfs :
        /\ temporal_safety \in Scenarios
        /\ Returned("valid_cancel", c,
                    [panic |-> FALSE, value |-> valid_cancel(temporal_safety, c)])

ScenarioSafeRefund ==
    \E c \in ScenarioConfs :
        \E out \in Outcomes(safe_refund(temporal_safety, c),
                            safe_refund_overflows(temporal_safety, c)) :
            temporal_safety \in Scenarios /\ Returned("safe_refund", c, out)

ScenarioValidPunish ==
    \E c \in ScenarioConfs :
        /\ temporal_safety \in Scenarios
        /\ Returned("valid_punish", c,
                    [panic |-> FALSE, value |-> valid_punish(temporal_safety, c)])

NextScenario ==
    \/ CallValidParams
    \/ ScenarioSafeBuy
    \/ ScenarioValidCancel
    \/ ScenarioSafeRefund
    \/ ScenarioValidPunish

SpecScenario == InitScenario /\ [][NextScenario]_vars

(***************************************************************************)
(* C13: valid_params returns Ok exactly when                               *)
(* btc_finality_thr < cancel_timelock < punish_timelock,                   *)
(* btc_finality_thr < race_thr, cancel_timelock > race_thr and             *)
(* punish_timelock > race_thr, and an error otherwise; cancel=5,           *)
(* punish=10, race=6, btc_final=3 is rejected.                             *)
(***************************************************************************)
OrderedParams(self) ==
    LET btc_final == AsInt(self.btc_finality_thr)
        cancel == AsInt(self.cancel_timelock)
        punish == AsInt(self.punish_timelock)
        race == AsInt(self.race_thr)
    IN  /\ btc_final < cancel /\ cancel < punish
        /\ btc_final < race
        /\ cancel > race
        /\ punish > race

C13_ValidParamsExact ==
    last.op = "valid_params" =>
        /\ ~last.out.panic
        /\ last.out.value = OrderedParams(temporal_safety)
        /\ temporal_safety = RejectedParams => ~last.out.value

\* the parameters of the "invalid params" scenario were rejected
C13_Witness ==
    /\ last.op = "valid_params"
    /\ temporal_safety = RejectedParams
    /\ last.out.value = FALSE

(***************************************************************************)
(* C15 (as amended): with cancel_timelock=20, punish_timelock=40,          *)
(* race_thr=6, btc_finality_thr=3, safe_buy holds at lock_confs=5 and      *)
(* still holds at lock_confs=14 (= cancel - race); buying ceases at        *)
(* lock_confs=15: safe_buy(lock_confs) is false for every lock_confs >= 15.*)
(***************************************************************************)
C15_BuyCeasesAfterWindow ==
    (last.op = "safe_buy" /\ temporal_safety = ScenarioParams) =>
        /\ ~last.out.panic
        /\ last.out.value = (Ge(last.confs, U32(3)) /\ Le(last.confs, U32(14)))

\* C15 as stated: safe_buy is false for every lock_confs >= 14
C15_Original ==
    (last.op = "safe_buy" /\ temporal_safety = ScenarioParams) =>
        /\ last.confs = U32(5) => last.out.value
        /\ Ge(last.confs, U32(14)) => ~last.out.value

\* safe_buy was asked at lock_confs = 14 and held
C15_Witness ==
    /\ last.op = "safe_buy"
    /\ temporal_safety = ScenarioParams
    /\ last.confs = U32(14)
    /\ last.out.value

(***************************************************************************)
(* C14: every temporal predicate (final_tx, stop_funding_before_cancel,    *)
(* valid_cancel, safe_buy, safe_refund, valid_punish) is total: for every  *)
(* TemporalSafety value, valid or not, and every confirmation count it     *)
(* returns a boolean, with no unsigned underflow or overflow in its        *)
(* threshold arithmetic.                                                   *)
(***************************************************************************)
PredicateOps ==
    {"final_tx_bitcoin", "final_tx_monero", "stop_funding_before_cancel",
     "valid_cancel", "safe_buy", "safe_refund", "valid_punish"}

\* the threshold arithmetic of the call leaves the u32 range
ThresholdArithmeticOverflows(op, confs) ==
    CASE op = "stop_funding_before_cancel" ->
             stop_funding_before_cancel_overflows(temporal_safety, confs)
      [] op = "safe_buy" -> safe_buy_overflows(temporal_safety, confs)
      [] op = "safe_refund" -> safe_refund_overflows(temporal_safety, confs)
      [] OTHER -> FALSE

C14_PredicatesTotal ==
    last.op \in PredicateOps =>
        /\ ~last.out.panic
        /\ last.out.value \in BOOLEAN
        /\ ~ThresholdArithmeticOverflows(last.op, last.confs)

(***************************************************************************)
(* C16: for valid parameters and a final lock,                             *)
(* blocks_until_stop_funding(lock_confs) is negative only if               *)
(* stop_funding_before_cancel(lock_confs) already holds, and               *)
(* stop_funding_before_cancel(lock_confs) holds only if                    *)
(* blocks_until_stop_funding(lock_confs) <= 0.                             *)
(***************************************************************************)
C16_BlocksUntilStopFundingAgrees ==
    (/\ last.op = "blocks_until_stop_funding"
     /\ valid_params(temporal_safety)
     /\ final_tx(temporal_safety, last.confs, "Bitcoin")) =>
        /\ last.out.value < 0 =>
               stop_funding_before_cancel(temporal_safety, last.confs)
        /\ stop_funding_before_cancel(temporal_safety, last.confs) =>
               last.out.value <= 0

(***************************************************************************)
(* C18: final_tx is monotonic in confirmations: for every TemporalSafety   *)
(* value and chain, if final_tx(n, chain) holds then final_tx(m, chain)    *)
(* holds for every m >= n.                                                 *)
(***************************************************************************)
ChainOfFinalTx(op) == IF op = "final_tx_bitcoin" THEN "Bitcoin" ELSE "Monero"

C18_FinalTxMonotonic ==
    (last.op \in {"final_tx_bitcoin", "final_tx_monero"} /\ last.out.value) =>
        \A m \in LockConfs \cup {U32Max} :
            Ge(m, last.confs) => final_tx(temporal_safety, m, ChainOfFinalTx(last.op))

\* final_tx held on the accordant chain at its threshold, below the largest
\* count
C18_Witness ==
    /\ last.op = "final_tx_monero"
    /\ last.out.value
    /\ last.confs = temporal_safety.xmr_finality_thr
    /\ Gt(last.confs, U32(0))

(***************************************************************************)
(* C17: every task issued by watch_tx, watch_addr, watch_height,           *)
(* estimate_fee_btc and sweep carries lifetime = (recorded height of its   *)
(* chain at the moment of issuance) + 500 when that height is known (> 0)  *)
(* and u64::MAX when it is 0; no later step alters the lifetime stored for *)
(* a task already issued.                                                  *)
(***************************************************************************)
LifetimeOps ==
    {"estimate_fee_btc", "watch_tx_btc", "watch_tx_xmr", "watch_addr_btc",
     "watch_addr_xmr", "watch_height", "sweep_btc", "sweep_xmr"}

\* the chain whose height the call reads
ChainOfCall(call) ==
    IF call.op = "watch_height" THEN call.blockchain
    ELSE IF call.op \in {"watch_tx_xmr", "watch_addr_xmr", "sweep_xmr"} THEN "Monero"
    ELSE "Bitcoin"

\* a u64 below 2^31 as an integer
Low(x) == x[3] * LimbBase + x[4]

IsLifetimeAt(lifetime, h) ==
    IF h = <<0, 0, 0, 0>>
    THEN lifetime = <<LimbBase - 1, LimbBase - 1, LimbBase - 1, LimbBase - 1>>
    ELSE /\ lifetime[1] = 0 /\ lifetime[2] = 0
         /\ h[1] = 0 /\ h[2] = 0
         /\ Low(lifetime) = Low(h) + 500

C17_LifetimeFromHeightAtIssue ==
    [][/\ last'.op \in LifetimeOps =>
            /\ IsLifetimeAt(last'.task.lifetime, height(ChainOfCall(last')))
            /\ last'.task.id \in DOMAIN tasks'
            /\ tasks'[last'.task.id] = last'.task
       /\ \A id \in (DOMAIN tasks) \cap (DOMAIN tasks') :
              "lifetime" \in DOMAIN tasks[id] =>
                  tasks'[id].lifetime = tasks[id].lifetime]_vars

\* a task issued before the height was known and a task issued at height 1
\* are both stored, and a height event came after them
C17_Witness ==
    /\ last.op = "handle_height_change"
    /\ \E a, b \in DOMAIN tasks :
           /\ "lifetime" \in DOMAIN tasks[a] /\ tasks[a].lifetime = U64Max
           /\ "lifetime" \in DOMAIN tasks[b] /\ tasks[b].lifetime = U64(501)

(***************************************************************************)
(* SpecSwap: the swap coordinator.  Its state machine follows the          *)
(* specification of the swap state machine (states, gates and terminal     *)
(* states); it drives the registry through watch_tx_btc and                *)
(* handle_tx_confs and asks the gates of TemporalSafety.                   *)
(***************************************************************************)
SwapLabels == {"Lock", "Cancel", "Buy", "Refund", "Punish"}

SwapEnds == {"success", "refund", "punish", "abort"}

\* Init -> CommitAB -> RevealAB -> CoreArb -> Funding, one peer message each
NextOnPeerMessage ==
    [Init |-> "CommitAB", CommitAB |-> "RevealAB", RevealAB |-> "CoreArb",
     CoreArb |-> "Funding"]

\* thresholds of the coordinated swaps: btc_final < race < cancel < punish
SwapParams ==
    {ts \in TemporalSafetyValues :
        /\ valid_params(ts)
        /\ ts.btc_finality_thr = U32(1) /\ ts.race_thr = U32(2)
        /\ ts.cancel_timelock = U32(3) /\ ts.punish_timelock = U32(4)}

\* the counts a report may carry: every count for the transactions with
\* timelock gates, not final or just final for the others
SwapReportedConfs(label) ==
    IF label \in {"Lock", "Cancel"}
    THEN {None} \cup {Some(U32(n)) : n \in 0..MaxSwapConfs}
    ELSE {Some(U32(0)), Some(temporal_safety.btc_finality_thr)}

StartedSwap == [state |-> "Init", emitted |-> {}, pending |-> {}, ends |-> {}]

IsTerminal(sw) == sw.state = "SwapEnd"

SwapEnd(sw, outcome) ==
    [sw EXCEPT !.state = "SwapEnd", !.ends = sw.ends \cup {outcome}]

Emit(sw, state, label) ==
    [sw EXCEPT !.state = state, !.emitted = sw.emitted \cup {label},
               !.pending = sw.pending \cup {label}]

\* the decision on a confirmation report of `confs` for the transaction
\* labelled `label`, whatever the state
decide(sw, label, confs) ==
    CASE label = "Lock" ->
             IF sw.state = "Funding" /\ final_tx(temporal_safety, confs, "Bitcoin")
             THEN [sw EXCEPT !.state = "Locked"]
             ELSE IF sw.state = "Locked" /\ safe_buy(temporal_safety, confs)
             THEN [sw EXCEPT !.state = "AccLocked"]
             ELSE IF /\ sw.state = "AccLocked"
                     /\ safe_buy(temporal_safety, confs)
                     /\ "Cancel" \notin sw.emitted
             THEN Emit(sw, "BuyProcedureSignature", "Buy")
             ELSE IF /\ sw.state \in {"Locked", "AccLocked", "BuyProcedureSignature"}
                     /\ valid_cancel(temporal_safety, confs)
                     /\ "Cancel" \notin sw.emitted
             THEN Emit(sw, sw.state, "Cancel")
             ELSE sw
      [] label = "Cancel" ->
             IF safe_refund(temporal_safety, confs) /\ "Refund" \notin sw.emitted
             THEN Emit(sw, sw.state, "Refund")
             ELSE IF valid_punish(temporal_safety, confs) /\ "Punish" \notin sw.emitted
             THEN Emit(sw, sw.state, "Punish")
             ELSE sw
      [] label = "Buy" ->
             IF final_tx(temporal_safety, confs, "Bitcoin")
             THEN SwapEnd(sw, "success") ELSE sw
      [] label = "Refund" ->
             IF final_tx(temporal_safety, confs, "Bitcoin")
             THEN SwapEnd(sw, "refund") ELSE sw
      [] label = "Punish" ->
             IF final_tx(temporal_safety, confs, "Bitcoin")
             THEN SwapEnd(sw, "punish") ELSE sw
      [] OTHER -> sw

\* a terminal state is left by a later report
swap_transition_reopens(sw, label, confs) == decide(sw, label, confs)

\* the transition of the state machine: a terminated swap takes none
swap_transition(sw, label, confs) ==
    IF IsTerminal(sw) THEN sw ELSE decide(sw, label, confs)

SwapFrame ==
    UNCHANGED <<temporal_safety, panicked, heights_seen, aborts, sent, acked, syncerd_vars>>

ReceivePeerMessage ==
    /\ swap.state \in DOMAIN NextOnPeerMessage
    /\ swap' = IF NextOnPeerMessage[swap.state] = "Funding"
               THEN Emit(swap, "Funding", "Lock")
               ELSE [swap EXCEPT !.state = NextOnPeerMessage[swap.state]]
    /\ last' = [op |-> "peer_message"]
    /\ UNCHANGED <<state_vars, issued, wrapped>>
    /\ SwapFrame

\* SwapEnd(abort) is reached only before any funds are committed
RequestAbort ==
    /\ swap.state \in {"Init", "CommitAB"}
    /\ swap' = SwapEnd(swap, "abort")
    /\ last' = [op |-> "abort_swap"]
    /\ UNCHANGED <<state_vars, issued, wrapped>>
    /\ SwapFrame

\* a protocol violation ends a swap that has committed funds
protocol_violation_aborts_running_swap(sw) ==
    IF IsTerminal(sw) THEN sw ELSE SwapEnd(sw, "abort")

\* a peer message that does not match the state: the swap is aborted if no
\* funds are committed yet, otherwise the message is a no-op
protocol_violation(sw) ==
    IF sw.state \in {"Init", "CommitAB"} THEN SwapEnd(sw, "abort") ELSE sw

ReceiveProtocolViolation ==
    /\ swap.state # "none"
    /\ swap' = protocol_violation(swap)
    /\ last' = [op |-> "protocol_violation"]
    /\ UNCHANGED <<state_vars, issued, wrapped>>
    /\ SwapFrame

\* the handler that emitted a transaction watches it before it returns
WatchEmitted ==
    \E label \in swap.pending :
        /\ watch_tx_btc(label, label)
        /\ swap' = [swap EXCEPT !.pending = swap.pending \ {label}]
        /\ SwapFrame

ReceiveTransactionConfirmations ==
    \E id \in EventIds :
      \E confs \in SwapReportedConfs(IF id \in DOMAIN watched_txs
                                      THEN watched_txs[id] ELSE "unknown") :
        /\ swap.pending = {}
        /\ handle_tx_confs(id, confs, temporal_safety.btc_finality_thr)
        /\ swap' = IF id \in DOMAIN watched_txs /\ IsSome(confs)
                   THEN swap_transition(swap, watched_txs[id], Unwrap(confs))
                   ELSE swap
        /\ SwapFrame

InitSwap ==
    /\ temporal_safety \in SwapParams
    /\ counter = U32(0)
    /\ watched_txs = EmptyMap /\ final_txs = EmptyMap /\ watched_addrs = EmptyMap
    /\ retrieving_txs = EmptyMap /\ broadcasting_txs = {} /\ sweeping_addr = None
    /\ txids = EmptyMap /\ tasks = EmptyMap
    /\ bitcoin_height = U64(0) /\ monero_height = U64(0)
    /\ confirmations = EmptyMap /\ xmr_addr_addendum = None
    /\ panicked = FALSE /\ last = NoCall /\ issued = << >> /\ wrapped = FALSE
    /\ heights_seen = << >> /\ aborts = {} /\ sent = EmptyMap /\ acked = {}
    /\ swap = StartedSwap
    /\ runtime = NoRuntime /\ worker = NoWorker /\ handled = << >>

NextSwap ==
    \/ ReceivePeerMessage
    \/ RequestAbort
    \/ ReceiveProtocolViolation
    \/ WatchEmitted
    \/ ReceiveTransactionConfirmations

SpecSwap == InitSwap /\ [][NextSwap]_vars

(***************************************************************************)
(* C19: in every run of the swap coordinator, no Buy or Refund action is   *)
(* emitted in a state where final_txs[Lock] is not latched true.           *)
(***************************************************************************)
C19_CompletingActionsNeedFinalLock ==
    [][\A action \in {"Buy", "Refund"} :
          (action \notin swap.emitted /\ action \in swap'.emitted) =>
              IsFinal("Lock")']_vars

\* Refund was emitted after the confirmations recorded for Lock had dropped
\* below the finality threshold again
C19_Witness ==
    /\ "Refund" \in swap.emitted
    /\ "Buy" \in swap.emitted
    /\ IsFinal("Lock")
    /\ confirmations["Lock"] = Some(U32(0))

(***************************************************************************)
(* C20: every coordinator run that reaches a terminal state reaches        *)
(* exactly one of SwapEnd(success), SwapEnd(refund), SwapEnd(punish),      *)
(* SwapEnd(abort); once a terminal state is reached no event moves the     *)
(* swap to a different terminal state.                                     *)
(***************************************************************************)
C20_OneTerminalState ==
    IsTerminal(swap) =>
        /\ Cardinality(swap.ends) = 1
        /\ swap.ends \subseteq SwapEnds

\* the swap ended in refund, and a final report for Punish arrived afterwards
C20_Witness ==
    /\ IsTerminal(swap)
    /\ swap.ends = {"refund"}
    /\ IsFinal("Punish")

C22_ReportRecordedAndLatched ==
    [][\A id \in DOMAIN watched_txs : \A label \in TxLabels :
          (last'.op = "handle_tx_confs" /\ last'.id = id /\ watched_txs[id] = label) =>
              /\ label \in DOMAIN confirmations'
              /\ confirmations'[label] = last'.confirmations
              /\ (~IsFinal(label) /\ IsFinal(label)') <=>
                     /\ ~IsFinal(label)
                     /\ IsSome(last'.confirmations)
                     /\ Ge(Unwrap(last'.confirmations), last'.finality_thr)
              /\ IsFinal(label) => IsFinal(label)'
              /\ \A other \in TxLabels \ {label} : IsFinal(other)' = IsFinal(other)]_vars

\* a report below the threshold was recorded for a label that is latched,
\* while the other label is not
C22_Witness ==
    /\ last.op = "handle_tx_confs"
    /\ last.id \in DOMAIN watched_txs
    /\ IsFinal(watched_txs[last.id])
    /\ confirmations[watched_txs[last.id]] = Some(U32(0))
    /\ \E other \in TxLabels : ~IsFinal(other)

(***************************************************************************)
(* C23: watch_tx_btc records both watched_txs[id] = label and              *)
(* txids[label] = hash, whereas watch_tx_xmr records watched_txs[id] =     *)
(* label and leaves txids unchanged; both insert a WatchTransaction task   *)
(* under the new id and leave all other indices unchanged.                 *)
(***************************************************************************)
C23_WatchTxWrites ==
    [][last'.op \in {"watch_tx_btc", "watch_tx_xmr"} =>
          /\ last'.task.kind = "WatchTransaction"
          /\ last'.task.id = counter'
          /\ tasks' = Insert(tasks, last'.task.id, last'.task)
          /\ \E label \in TxLabels :
                 /\ watched_txs' = Insert(watched_txs, last'.task.id, label)
                 /\ IF last'.op = "watch_tx_btc"
                    THEN \E txid \in Txids :
                             /\ last'.task.hash = to_vec(txid)
                             /\ txids' = Insert(txids, label, txid)
                    ELSE txids' = txids
          /\ UNCHANGED <<final_txs, watched_addrs, retrieving_txs, broadcasting_txs,
                         sweeping_addr, confirmations, xmr_addr_addendum,
                         bitcoin_height, monero_height>>]_vars

\* an accordant-chain watch followed an arbitrating-chain one: txids holds the
\* arbitrating label alone
C23_Witness ==
    /\ last.op = "watch_tx_xmr"
    /\ last.task.id \in DOMAIN watched_txs
    /\ watched_txs[last.task.id] = "AccLock"
    /\ DOMAIN txids = {"Lock"}
    /\ \E id \in DOMAIN watched_txs : watched_txs[id] = "Lock"

(***************************************************************************)
(* C24: handle_height_change for one chain changes at most that chain's    *)
(* recorded height: the other chain's height, the task counter, the task   *)
(* map, all correlation indices, confirmations and final_txs are           *)
(* unchanged, whether the new height is accepted or ignored.               *)
(***************************************************************************)
C24_HeightChangeFrame ==
    [][last'.op = "handle_height_change" =>
          /\ last'.blockchain = "Bitcoin" => monero_height' = monero_height
          /\ last'.blockchain = "Monero" => bitcoin_height' = bitcoin_height
          /\ UNCHANGED <<counter, tasks, watched_txs, watched_addrs, retrieving_txs,
                         broadcasting_txs, sweeping_addr, txids, confirmations,
                         final_txs, xmr_addr_addendum>>]_vars

\* a Bitcoin height was accepted over a registry that holds tasks and a
\* latched label, while the Monero height is still unknown
C24_Witness ==
    /\ last.op = "handle_height_change"
    /\ last.blockchain = "Bitcoin"
    /\ bitcoin_height = last.new_height
    /\ Gt64(bitcoin_height, monero_height)
    /\ DOMAIN tasks # {}
    /\ \E label \in TxLabels : IsFinal(label)

C28_FundingStopsWhenBuyUnsafe ==
    (/\ last.op = "stop_funding_before_cancel"
     /\ valid_params(temporal_safety)
     /\ final_tx(temporal_safety, last.confs, "Bitcoin")
     /\ ~safe_buy(temporal_safety, last.confs)) =>
        last.out = [panic |-> FALSE, value |-> TRUE]

(***************************************************************************)
(* C29: if final_txs[label] is latched for an arbitrating-chain label,     *)
(* then the transaction recorded in txids[label] is the one whose watch    *)
(* task reported confirmations >= finality_thr, also when watch_tx_btc was *)
(* called several times for the same label with different txids and        *)
(* confirmation events for the earlier task ids still arrive.  As a        *)
(* property of steps: the report that latches a label comes from the task  *)
(* that watches txids[label], and txids[label] is not rewritten while the  *)
(* label is latched.                                                       *)
(***************************************************************************)
\* every watch task of the label was issued by watch_tx_btc
WatchedOnArbitratingChain(label) ==
    /\ label \in DOMAIN txids
    /\ \A id \in DOMAIN watched_txs :
           watched_txs[id] = label =>
               /\ id \in DOMAIN tasks
               /\ tasks[id].kind = "WatchTransaction"
               /\ \E txid \in Txids : tasks[id].hash = to_vec(txid)

C29_LatchedTxIsRecorded ==
    [][\A label \in TxLabels :
          WatchedOnArbitratingChain(label) =>
              /\ (/\ last'.op = "handle_tx_confs"
                  /\ ~IsFinal(label)
                  /\ IsFinal(label)') =>
                     \A id \in DOMAIN watched_txs :
                         id = last'.id => tasks[id].hash = to_vec(txids[label])
              /\ IsFinal(label) =>
                     /\ label \in DOMAIN txids'
                     /\ txids'[label] = txids[label]]_vars

(***************************************************************************)
(* C30: the final_txs map never holds the value false: in every reachable  *)
(* state each label is either absent from final_txs or mapped to true, so  *)
(* the "non-final" branch of handle_tx_confs is never taken.               *)
(***************************************************************************)
C30_FinalTxsOnlyTrue ==
    \A label \in DOMAIN final_txs : final_txs[label] = TRUE

\* handle_tx_confs took the branch that reads final_txs: an unknown count
\* arrived for a label that final_txs holds
C30_Witness ==
    /\ last.op = "handle_tx_confs"
    /\ last.confirmations = None
    /\ last.id \in DOMAIN watched_txs
    /\ watched_txs[last.id] \in DOMAIN final_txs
    /\ confirmations[watched_txs[last.id]] = None

(***************************************************************************)
(* SpecRuntime: the syncer daemon (src/syncerd/runtime.rs).  run builds    *)
(* the Runtime and hands the receiving end of a channel to the syncer      *)
(* worker; the service loop passes every bus request to handle and every   *)
(* error to handle_err.  The Runtime is the record [identity, chain,       *)
(* tasks, tx], tx being the channel behind the Sender: the tasks sent and  *)
(* not yet received.  started, uptime and since read the clock and are     *)
(* left out.                                                               *)
(***************************************************************************)
Chains == {"Testnet3", "Mainnet"}
Buses == {"Msg", "Ctl", "Bridge"}
\* ServiceId::Client(_) and a service that is not a client
ServiceIds == {"Client", "Swap"}
WireTasks == {[kind |-> "WatchHeight", id |-> U32(n)] : n \in 1..MaxWireTasks}
Requests ==
    {[kind |-> "Hello"], [kind |-> "GetInfo"], [kind |-> "ListTasks"],
     [kind |-> "Progress"]} \cup
    {[kind |-> "SyncerTask", task |-> t] : t \in WireTasks}
\* esb::Error values the bus hands to handle_err
BusErrors == {"Send", "UnknownBusId"}

Ok == [ok |-> TRUE]
Err(e) == [ok |-> FALSE, err |-> e]
NotSupported(bus, type) == <<"NotSupported", bus, type>>
get_type(request) == request.kind

\* what a handler leaves: the Runtime, the messages it gave to senders.send_to
\* and its result
Handled(self, replies, result) ==
    [self |-> self, replies |-> replies, result |-> result]

\* run: `syncer.unwrap()` panics for every chain but Testnet3
run(chain) ==
    IF chain = "Testnet3"
    THEN [panic |-> FALSE,
          value |-> [identity |-> "Syncer", chain |-> chain, tasks |-> {},
                     tx |-> << >>]]
    ELSE [panic |-> TRUE]

handle_rpc_msg(self, source, request) ==
    IF request.kind = "Hello"
    THEN Handled(self, << >>, Ok)
    ELSE Handled(self, << >>, Err(NotSupported("Msg", get_type(request))))

\* the task of a SyncerTask request is sent a second time
handle_rpc_ctl_sends_twice(self, sends, source, request) ==
    IF request.kind = "SyncerTask"
    THEN Handled([self EXCEPT !.tx = Append(Append(@, request.task), request.task)],
                 << >>, Ok)
    ELSE Handled(self, << >>, Ok)

\* an accepted task is recorded in the task set of the Runtime
handle_rpc_ctl_records_task(self, sends, source, request) ==
    LET syncer_info == [kind |-> "SyncerInfo", to |-> source, tasks |-> self.tasks]
        task_list == [kind |-> "TaskList", to |-> source, tasks |-> self.tasks]
        progress == [kind |-> "Progress", to |-> source, text |-> "ListedTasks?"]
    IN  CASE request.kind = "Hello" -> Handled(self, << >>, Ok)
          [] request.kind = "SyncerTask" ->
                 Handled([self EXCEPT !.tx = Append(@, request.task),
                                      !.tasks = @ \cup {request.task.id}],
                         << >>, Ok)
          [] request.kind = "GetInfo" ->
                 IF sends[1]
                 THEN Handled(self, <<syncer_info>>, Ok)
                 ELSE Handled(self, << >>, Err("Esb"))
          [] request.kind = "ListTasks" /\ source = "Client" ->
                 IF ~sends[1] THEN Handled(self, << >>, Err("Esb"))
                 ELSE IF ~sends[2] THEN Handled(self, <<task_list>>, Err("Esb"))
                 ELSE Handled(self, <<task_list, progress>>, Ok)
          [] OTHER ->
                 Handled(self, << >>, Err(NotSupported("Ctl", get_type(request))))

\* sends[i] tells whether the i-th senders.send_to of the call succeeds
handle_rpc_ctl(self, sends, source, request) ==
    LET syncer_info == [kind |-> "SyncerInfo", to |-> source, tasks |-> self.tasks]
        task_list == [kind |-> "TaskList", to |-> source, tasks |-> self.tasks]
        progress == [kind |-> "Progress", to |-> source, text |-> "ListedTasks?"]
    IN  CASE request.kind = "Hello" -> Handled(self, << >>, Ok)
          [] request.kind = "SyncerTask" ->
                 \* the Result of tx.send is dropped
                 Handled([self EXCEPT !.tx = Append(@, request.task)], << >>, Ok)
          [] request.kind = "GetInfo" ->
                 IF sends[1]
                 THEN Handled(self, <<syncer_info>>, Ok)
                 ELSE Handled(self, << >>, Err("Esb"))
          [] request.kind = "ListTasks" /\ source = "Client" ->
                 IF ~sends[1] THEN Handled(self, << >>, Err("Esb"))
                 ELSE IF ~sends[2] THEN Handled(self, <<task_list>>, Err("Esb"))
                 ELSE Handled(self, <<task_list, progress>>, Ok)
          [] OTHER ->
                 Handled(self, << >>, Err(NotSupported("Ctl", get_type(request))))

handle(self, sends, bus, source, request) ==
    CASE bus = "Msg" -> handle_rpc_msg(self, source, request)
      [] bus = "Ctl" -> handle_rpc_ctl(self, sends, source, request)
      [] OTHER -> Handled(self, << >>, Err(NotSupported("Bridge", get_type(request))))

\* the error is handed back to the service loop
handle_err_propagates(self, err) == [self |-> self, result |-> Err(err)]

handle_err(self, err) == [self |-> self, result |-> Ok]

\* the service loop goes on after handle_err unless handle_err fails
run_loop(hook) == IF hook.result.ok THEN "running" ELSE "stopped"

RuntimeFrame ==
    UNCHANGED <<temporal_safety, state_vars, issued, wrapped, heights_seen, aborts,
                sent, acked, swap>>

Run ==
    \E chain \in Chains :
        /\ runtime.status = "none"
        /\ runtime' = IF run(chain).panic
                      THEN [status |-> "panicked"]
                      ELSE [status |-> "running", self |-> run(chain).value]
        /\ panicked' = run(chain).panic
        /\ last' = [op |-> "run", chain |-> chain]
        /\ UNCHANGED <<worker, handled>>
        /\ RuntimeFrame

\* one iteration of the service loop: a request arrives and is handled; a
\* failed handler is reported to handle_err
ReceiveRequest ==
    \E bus \in Buses, source \in ServiceIds, request \in Requests,
       sends \in BOOLEAN \X BOOLEAN :
        LET forwarding == bus = "Ctl" /\ request.kind = "SyncerTask"
            out == handle(runtime.self, sends, bus, source, request)
            hook == handle_err(out.self, out.result)
        IN  /\ runtime.status = "running"
            /\ forwarding => Len(handled) < MaxCtlTasks
            /\ runtime' = IF out.result.ok
                          THEN [status |-> "running", self |-> out.self]
                          ELSE [status |-> run_loop(hook), self |-> hook.self]
            /\ handled' = IF forwarding THEN Append(handled, request.task) ELSE handled
            /\ last' = [op |-> "handle", bus |-> bus, source |-> source,
                        request |-> request, result |-> out.result,
                        replies |-> out.replies]
            /\ UNCHANGED <<worker, panicked>>
            /\ RuntimeFrame

\* one iteration of the service loop: the bus itself fails
ReceiveBusError ==
    \E err \in BusErrors :
        LET hook == handle_err(runtime.self, err)
        IN  /\ runtime.status = "running"
            /\ runtime' = [status |-> run_loop(hook), self |-> hook.self]
            /\ last' = [op |-> "handle_err", err |-> err, result |-> hook.result]
            /\ UNCHANGED <<worker, handled, panicked>>
            /\ RuntimeFrame

\* the syncer worker takes the oldest task off the channel
WorkerReceives ==
    /\ runtime.status = "running"
    /\ runtime.self.tx # << >>
    /\ worker' = [received |-> Append(worker.received, Head(runtime.self.tx))]
    /\ runtime' = [runtime EXCEPT !.self.tx = Tail(@)]
    /\ last' = [op |-> "recv", task |-> Head(runtime.self.tx)]
    /\ UNCHANGED <<handled, panicked>>
    /\ RuntimeFrame

InitRuntime ==
    /\ temporal_safety = ScenarioParams
    /\ RegistryInit(U32(0))

NextRuntime ==
    \/ Run
    \/ ReceiveRequest
    \/ ReceiveBusError
    \/ WorkerReceives

SpecRuntime == InitRuntime /\ [][NextRuntime]_vars

C27_ErrorsNotPropagated ==
    [][/\ last'.op = "handle_err" =>
              /\ last'.result = Ok
              /\ UNCHANGED <<runtime, worker, handled>>
       /\ runtime.status = "running" => runtime'.status = "running"]_vars

\* handle_err ran on a runtime with a task on its channel, and the loop runs
C27_Witness ==
    /\ last.op = "handle_err"
    /\ runtime.status = "running"
    /\ runtime.self.tx # << >>

====
